---- MODULE Spec2Model ----
(***************************************************************************)
(* The ClaraCore release pipelines as one state machine.                   *)
(*                                                                         *)
(* The repository holds two release programs:                              *)
(*   release.py          ("root"):    build_binaries, create_github_release *)
(*   scripts/release.py  ("scripts"): build_target, stage_and_zip,          *)
(*                                    create_or_get_release, gh_upload_asset*)
(* A run is one execution of one of the two programs.  Runs are sequential *)
(* and share the dist/ directory on disk and the remote release of the one *)
(* tag that is modelled (every run is given that same tag: the re-run      *)
(* scenario).  The compiler and the remote API are the environment: their  *)
(* outcomes are drawn nondeterministically in the action that makes the    *)
(* call.                                                                   *)
(***************************************************************************)
EXTENDS Integers, Sequences, FiniteSets, TLC

\* Number of pipeline runs explored (the first run plus re-runs).
MaxRuns == 2

\* Longest tag of the exhaustive part of Tags.
MaxTagLen == 3

(***************************************************************************)
(* Program constants                                                       *)
(***************************************************************************)

\* release.py BUILD_TARGETS, in declaration order.
BUILD_TARGETS ==
  << [goos |-> "linux",   goarch |-> "amd64", filename |-> "claracore-linux-amd64"],
     [goos |-> "linux",   goarch |-> "arm64", filename |-> "claracore-linux-arm64"],
     [goos |-> "darwin",  goarch |-> "amd64", filename |-> "claracore-darwin-amd64"],
     [goos |-> "darwin",  goarch |-> "arm64", filename |-> "claracore-darwin-arm64"],
     [goos |-> "windows", goarch |-> "amd64", filename |-> "claracore-windows-amd64.exe"] >>

\* scripts/release.py main: targets, in declaration order.  bin is
\* DIST / f"build-{goos}-{goarch}" / exe (build_target), zip is
\* DIST / f"claracore-{tag}-{goos}-{goarch}.zip" (stage_and_zip) for the tag.
targets ==
  << [goos |-> "darwin",  goarch |-> "arm64",
      bin |-> "build-darwin-arm64/claracore",
      zip |-> "claracore-TAG-darwin-arm64.zip"],
     [goos |-> "windows", goarch |-> "amd64",
      bin |-> "build-windows-amd64/claracore.exe",
      zip |-> "claracore-TAG-windows-amd64.zip"],
     [goos |-> "linux",   goarch |-> "amd64",
      bin |-> "build-linux-amd64/claracore",
      zip |-> "claracore-TAG-linux-amd64.zip"] >>

\* release.py: Path(BUILD_DIR) / "checksums.txt"
CHECKSUMS == "checksums.txt"

RootFiles    == { BUILD_TARGETS[k].filename : k \in 1..Len(BUILD_TARGETS) }
ScriptBins   == { targets[k].bin : k \in 1..Len(targets) }
ScriptZips   == { targets[k].zip : k \in 1..Len(targets) }

\* Every file either program writes below dist/.
DistFiles  == RootFiles \cup {CHECKSUMS} \cup ScriptBins \cup ScriptZips
\* Every asset name either program uploads.
AssetNames == RootFiles \cup {CHECKSUMS} \cup ScriptZips

(***************************************************************************)
(* Strings are sequences of one-character strings.                         *)
(***************************************************************************)

\* str.startswith(prefix)
startswith(s, prefix) ==
  Len(s) >= Len(prefix) /\ SubSeq(s, 1, Len(prefix)) = prefix

\* str.find(sub): the lowest 0-based index at which sub occurs, or -1.
find(s, sub) ==
  LET hits == { i \in 1..(Len(s) - Len(sub) + 1) : SubSeq(s, i, i + Len(sub) - 1) = sub }
  IN  IF hits = {} THEN -1 ELSE (CHOOSE i \in hits : \A j \in hits : i <= j) - 1

\* str.split(sep) for a one-character separator: the parts between the
\* separators, empty parts included; the empty string gives one empty part.
RECURSIVE split(_, _)
split(s, sep) ==
  LET seps == { i \in 1..Len(s) : s[i] = sep }
  IN  IF seps = {} THEN << s >>
      ELSE LET i == CHOOSE i \in seps : \A j \in seps : i <= j
           IN  << SubSeq(s, 1, i - 1) >> \o split(SubSeq(s, i + 1, Len(s)), sep)

\* release.py validate_version: the prefix 'v', then version[1:].split('.')
\* must give at least two parts.
validate_version(version) ==
  IF ~startswith(version, << "v" >>) THEN FALSE
  ELSE Len(split(Tail(version), ".")) >= 2

\* release.py create_github_release: the prerelease argument of
\* create_git_release.
root_prerelease(version) ==
  \/ find(version, << "a", "l", "p", "h", "a" >>) # -1
  \/ find(version, << "b", "e", "t", "a" >>) # -1
  \/ find(version, << "r", "c" >>) # -1

\* scripts/release.py: the "prerelease" field of the create payload is
\* args.prerelease, as main passes it to create_or_get_release.
scripts_prerelease(version, args_prerelease) == args_prerelease

\* The tag of the runs of the re-run scenario.
RunTag == << "v", "1", ".", "2", ".", "3" >>

\* Tags a single run is explored with: the tags the specification names,
\* tags carrying a pre-release marker, and every string of up to MaxTagLen
\* characters over TagChars.
TagChars == { "v", "1", ".", "X" }
Tags ==
  { RunTag,
    << "v", "0", ".", "1" >>,
    << "1", ".", "2", ".", "3" >>,
    << "v", "1", ".", "0", "r", "c", "1" >>,
    << "v", "1", ".", "0", "b", "e", "t", "a" >>,
    << "v", "2", ".", "0", "a", "l", "p", "h", "a" >> }
  \cup UNION { [1..n -> TagChars] : n \in 0..MaxTagLen }

\* The release handle a run holds: nothing yet.
NoRelease == [held |-> FALSE, upload_url |-> ""]

\* calculate_sha256: the digest of a file's content (symbolic, injective).
calculate_sha256(content) == <<"sha256", content>>

\* The bytes of the file f of dist/: what the compiler wrote (0 when absent,
\* else the run that wrote it) and whether a signature was added to it.
FileBytes(d, sg, f) == [content |-> d[f], signed |-> f \in sg]

\* stage_and_zip: the auxiliary files it copies from the project root.
AUX == << "README.md", "LICENSE.md", "config.example.yaml" >>

AuxNames == { AUX[k] : k \in 1..Len(AUX) }

\* build_target: exe, the file name of a binary.
ExeFileNames == {"claracore", "claracore.exe"}

\* The file names a staging directory can hold: the binary, the auxiliary
\* files, and a file no call of stage_and_zip writes.
StageNames == ExeFileNames \cup AuxNames \cup {"leftover.txt"}

\* A directory without files.  A file maps to 0 (absent) or to its content.
EmptyDir == [n \in StageNames |-> 0]

\* shutil.make_archive(..., "zip", root_dir=stage): the archive's entries,
\* one per file of the directory, as name and content.
make_archive(dir) == { << n, dir[n] >> : n \in { m \in StageNames : dir[m] # 0 } }

\* stage_and_zip: "for fname in (...): if src.exists(): shutil.copy2(src,
\* stage / fname)", from the k-th name on.
RECURSIVE copy_aux(_, _, _)
copy_aux(dir, root, k) ==
  IF k > Len(AUX) THEN dir
  ELSE copy_aux(IF root[AUX[k]] # 0 THEN [dir EXCEPT ![AUX[k]] = root[AUX[k]]] ELSE dir,
                root, k + 1)

\* Variant of clear_stage: an existing staging directory is kept as it is.
keep_stage(dir) == dir

\* stage_and_zip: "if stage.exists(): shutil.rmtree(stage)" and stage.mkdir.
clear_stage(dir) == EmptyDir

\* stage_and_zip on the files f: f.stage (the staging directory), f.zip (the
\* archive, {} standing for an absent or empty one), f.root (the auxiliary
\* files of the project root), f.exe and f.bin (the binary's name and content).
stage_and_zip_files(f) ==
  LET cleared == clear_stage(f.stage)
      staged  == copy_aux([cleared EXCEPT ![f.exe] = f.bin], f.root, 1)
  IN  [f EXCEPT !.stage = staged, !.zip = make_archive(staged)]

\* "unknown", the value get_git_commit and get_go_version fall back to.
Unknown == << "u", "n", "k", "n", "o", "w", "n" >>

\* What "git rev-parse HEAD" can print: nothing (the command fails), or a
\* hash; the first two agree in their first seven characters.
Heads ==
  { << >>,
    << "a", "b", "c", "1", "2", "3", "4", "d", "e" >>,
    << "a", "b", "c", "1", "2", "3", "4", "f", "f" >>,
    << "9", "9", "9", "0", "0", "0", "0", "d", "e" >> }

\* get_git_commit: result.stdout.strip()[:7], "unknown" when git fails.
get_git_commit(head) ==
  IF head = << >> THEN Unknown
  ELSE SubSeq(head, 1, IF Len(head) < 7 THEN Len(head) ELSE 7)

\* What "go version" can print, as its words: nothing (the command fails),
\* a line too short to hold a version, or a version line.
GoOutputs ==
  { << >>,
    << "go", "version" >>,
    << "go", "version", "go1.21.0", "linux/amd64" >>,
    << "go", "version", "go1.22.1", "linux/amd64" >> }

\* get_go_version: result.stdout.strip().split()[2], "unknown" on any error.
get_go_version(out) == IF Len(out) < 3 THEN "unknown" ELSE out[3]

\* The wall clock at a call, in seconds.
Clock == {0, 30, 60}

\* datetime.utcnow().strftime("%Y-%m-%d %H:%M UTC"): the time to the minute.
build_time(now) == now \div 60

\* Binaries as build_binaries records them, for generate_release_notes.
NoteBinaries ==
  { [filename |-> "claracore-linux-amd64", size |-> "10.0 MB", sha256 |-> "d1"],
    [filename |-> "claracore-windows-amd64.exe", size |-> "11.5 MB", sha256 |-> "d2"] }

\* generate_release_notes: the text, as its parts in order: the title, a
\* download line per binary, a checksum line per binary, the build
\* information and the changelog link.  env: what the function reads itself
\* (the clock, git's HEAD, the output of "go version").
generate_release_notes(version, binaries, env) ==
  << << "title", version >> >>
  \o [k \in 1..Len(binaries) |->
        << "download", binaries[k].filename, binaries[k].size >>]
  \o [k \in 1..Len(binaries) |->
        << "checksum", binaries[k].filename, binaries[k].sha256 >>]
  \o << << "build", version, build_time(env.now), get_git_commit(env.head),
           get_go_version(env.go) >>,
        << "changelog", version >> >>

\* Before any call of generate_release_notes on its own.
NotesIdle == [texts |-> << >>]

\* The inputs of generate_release_notes on its own: a version and a list
\* of up to two binaries; texts: the results of the calls so far.
NotesInputs ==
  { [version |-> v, binaries |-> b, now |-> 0, texts |-> << >>] :
      v \in { RunTag, << "v", "0", ".", "1" >> },
      b \in UNION { [1..n -> NoteBinaries] : n \in 0..2 } }

\* Number of successive calls considered of a function taken on its own.
MaxCalls == 2

\* Before any call of stage_and_zip on its own.
PackIdle == [calls |-> 0]

\* The inputs of stage_and_zip on its own (before, beforeZip: the staging
\* directory and archive as they were at the start): any earlier staging directory
\* (files of an earlier content 1), any earlier archive, any set of auxiliary
\* files in the project root, either binary name, a binary of content 2.
PackInputs ==
  { [calls |-> 0, first |-> EmptyDir, firstZip |-> {}, before |-> st, beforeZip |-> z,
     stage |-> st, zip |-> z, root |-> r, exe |-> e, bin |-> 2] :
      st \in [StageNames -> {0, 1}],
      z \in {{}, {<< "leftover.txt", 1 >>, << "README.md", 1 >>}},
      r \in [AuxNames -> {0, 2}],
      e \in ExeFileNames }

VARIABLES
  run,        \* number of runs started so far
  pipeline,   \* "root" | "scripts": the program of the current run
  skip,       \* --build-only / --skip-upload of the current run
  tag,        \* --version / --tag of the current run, as its characters
  prerelease, \* --prerelease of the current run (scripts/release.py only)
  pc,         \* position of the current run; "idle" before the first, "done" after exit
  exitCode,   \* process exit status of the last finished run
  idx,        \* loop index of the loop the run is in
  outcome,    \* this run: target index -> "none" (not attempted), "ok" (the
              \* compiler wrote the binary) or "fail" (it did not)
  built,      \* this run: built_binaries / builds, in order
  zips,       \* this run (scripts): archives packaged, in order
  rel,        \* this run: the release object obtained
  reqs,       \* this run: remote requests issued, in order
  disk,       \* dist/: file -> 0 (absent) or the run that wrote its content
  checksums,  \* dist/checksums.txt: its lines
  relExists,  \* remote: a release exists for the tag
  relPre,     \* remote: the prerelease flag of that release
  assets,     \* remote: asset name -> 0 (absent) or the run whose file it holds
  signs,      \* this run: the calls of sign_windows_binary, with how each went
  syso,       \* ./claracore_windows.syso: 0 (absent) or the run that compiled it
  pack,       \* stage_and_zip on its own: the files it reads and writes
  notes,      \* generate_release_notes on its own: its inputs and results
  sig         \* dist/: the files that carry an Authenticode signature

vars == << run, pipeline, skip, tag, prerelease, pc, exitCode, idx, outcome, built,
           zips, rel, reqs, disk, checksums, relExists, relPre, assets, signs,
           syso, pack, notes, sig >>

NoOutcome == [k \in 1..Len(BUILD_TARGETS) |-> "none"]

InitRun ==
  /\ run = 0
  /\ pipeline = "root"
  /\ skip = FALSE
  /\ tag = RunTag
  /\ prerelease = FALSE
  /\ pc = "idle"
  /\ exitCode = 0
  /\ idx = 0
  /\ outcome = NoOutcome
  /\ built = << >>
  /\ zips = << >>
  /\ rel = NoRelease
  /\ reqs = << >>
  /\ disk = [f \in DistFiles |-> 0]
  /\ checksums = << >>
  /\ relExists = FALSE
  /\ relPre = FALSE
  /\ assets = [n \in AssetNames |-> 0]
  /\ signs = << >>
  /\ syso = 0
  /\ sig = {}

Init ==
  /\ InitRun
  /\ pack = PackIdle
  /\ notes = NotesIdle

\* The process ends with the given status.
Exit(code) ==
  /\ pc' = "done"
  /\ exitCode' = code

\* A remote request as the run issued it: existed is the remote's state for
\* the thing asked about at the time of the request.
\* signed: for the upload of a file of dist/ kept under the asset's name,
\* whether the bytes sent carry a signature.
Request(op, name, resp, body) ==
  [op |-> op, name |-> name, resp |-> resp, body |-> body, existed |->
     IF op = "upload" THEN assets[name] # 0 ELSE relExists,
   signed |-> op = "upload" /\ name \in sig]

\* A fresh run: what a process starts with.
NewRun(p, s, t, pre) ==
  /\ pc \in {"idle", "done"}
  /\ run < MaxRuns
  /\ run' = run + 1
  /\ pipeline' = p
  /\ skip' = s
  /\ tag' = t
  /\ prerelease' = pre
  /\ outcome' = NoOutcome
  /\ built' = << >>
  /\ zips' = << >>
  /\ rel' = NoRelease
  /\ reqs' = << >>
  /\ signs' = << >>
  /\ idx' = 1

(***************************************************************************)
(* release.py                                                              *)
(***************************************************************************)

\* Variant of reset_build_dir: the existing build directory is kept.
keep_build_dir(d) == d

\* build_binaries: "if build_path.exists(): shutil.rmtree(build_path)" and
\* mkdir: the directory as it is after the reset.
reset_build_dir(d) == [f \in DistFiles |-> 0]

\* How compile_windows_resources can go: "skipped" (the host is not win32,
\* claracore.rc is absent, or windres is not installed), "failed" (windres
\* exits with failure), "compiled" (windres wrote the object).
ResourceOutcomes == {"skipped", "failed", "compiled"}

\* compile_windows_resources: ./claracore_windows.syso afterwards.
compile_windows_resources(y, r) == IF r = "compiled" THEN run' ELSE y

\* main, up to the call of build_binaries, and build_binaries up to its loop:
\* "if not validate_version(args.version): sys.exit(1)", then
\* prereq: check_prerequisites() and the token file are in order; then
\* compile_windows_resources (r: how it goes) and the reset of dist/.
root_main(version, build_only, prereq, r) ==
  /\ NewRun("root", build_only, version, FALSE)
  /\ IF validate_version(version) /\ prereq
       THEN /\ syso' = compile_windows_resources(syso, r)
            /\ disk' = reset_build_dir(disk)
            /\ sig' = { f \in sig : reset_build_dir(disk)[f] # 0 }
            /\ pc' = "build"
            /\ exitCode' = exitCode
       ELSE /\ Exit(1)
            /\ disk' = disk
            /\ syso' = syso
            /\ sig' = sig
  /\ UNCHANGED << checksums, relExists, relPre, assets, pack, notes >>

\* The compile step of one target: the file at path after the compiler ran.
\* o = "ok": the compiler wrote it; otherwise it is as it was.
compile(d, path, o) == IF o = "ok" THEN [d EXCEPT ![path] = run] ELSE d

\* build_binaries: whether the loop body appends the target to built_binaries.
\* o = "fail": "if not success: continue"; then "if not output_path.exists()".
root_target_built(d, path, o) == o # "fail" /\ d[path] # 0

\* How the signing of one binary can go: no certificate configured or its
\* file absent; signtool.exe at none of the probed paths; the signing command
\* exits with failure; the signing command succeeds.
SignOutcomes == {"no_cert", "no_tool", "sign_fail", "signed"}

\* The results of sign_windows_binary in which it ran the signing command.
SignCommandRan == {"sign_fail", "signed"}

\* The file names that end with ".exe".
ExeNames == {"claracore-windows-amd64.exe"}

\* sign_windows_binary: the log of signing calls afterwards.  A name that
\* does not end with ".exe" returns at once; every other path returns True.
sign_windows_binary(log, name, s) ==
  IF name \notin ExeNames THEN log
  ELSE Append(log, [name |-> name, result |-> s])

\* The compile step and the signatures: a file the compiler wrote anew
\* carries none.
compiled_unsigned(sg, path, o) == IF o = "ok" THEN sg \ {path} ELSE sg

\* sign_windows_binary: "subprocess.run(cmd, check=True)" with signtool sign:
\* the signature is added to the file when the command succeeds.
signtool_sign(sg, name, s) ==
  IF name \in ExeNames /\ s = "signed" THEN sg \cup {name} ELSE sg

\* Variant of root_build_target: a signing command that exits with failure
\* makes the loop skip the target.
root_build_target_sign_fatal(o, s) ==
  /\ pipeline = "root"
  /\ pc = "build"
  /\ idx \in 1..Len(BUILD_TARGETS)
  /\ LET t    == BUILD_TARGETS[idx]
         d    == compile(disk, t.filename, o)
         good == root_target_built(d, t.filename, o)
         sign == good /\ t.goos = "windows"
         log  == IF sign THEN sign_windows_binary(signs, t.filename, s) ELSE signs
         sg0  == compiled_unsigned(sig, t.filename, o)
         sg   == IF sign THEN signtool_sign(sg0, t.filename, s) ELSE sg0
     IN  /\ disk' = d
         /\ sig' = sg
         /\ outcome' = [outcome EXCEPT ![idx] = IF o = "ok" THEN "ok" ELSE "fail"]
         /\ signs' = log
         /\ built' = IF good /\ ~(sign /\ s = "sign_fail")
                       THEN Append(built, [target |-> idx, name |-> t.filename,
                                           path |-> t.filename,
                                           sha256 |-> calculate_sha256(FileBytes(d, sg, t.filename))])
                       ELSE built
  /\ idx' = idx + 1
  /\ pc' = IF idx = Len(BUILD_TARGETS) THEN "built" ELSE "build"
  /\ UNCHANGED << run, pipeline, skip, tag, prerelease, pack, notes, syso, exitCode, zips,
                  rel, reqs, checksums, relExists, relPre, assets >>

\* Variant of root_build_target: the digest is taken before the binary is
\* signed.
root_build_target_digest_first(o, s) ==
  /\ pipeline = "root"
  /\ pc = "build"
  /\ idx \in 1..Len(BUILD_TARGETS)
  /\ LET t    == BUILD_TARGETS[idx]
         d    == compile(disk, t.filename, o)
         good == root_target_built(d, t.filename, o)
         sign == good /\ t.goos = "windows"
         log  == IF sign THEN sign_windows_binary(signs, t.filename, s) ELSE signs
         sg0  == compiled_unsigned(sig, t.filename, o)
         sg   == IF sign THEN signtool_sign(sg0, t.filename, s) ELSE sg0
     IN  /\ disk' = d
         /\ sig' = sg
         /\ outcome' = [outcome EXCEPT ![idx] = IF o = "ok" THEN "ok" ELSE "fail"]
         /\ signs' = log
         /\ built' = IF good
                       THEN Append(built, [target |-> idx, name |-> t.filename,
                                           path |-> t.filename,
                                           sha256 |-> calculate_sha256(FileBytes(d, sg0, t.filename))])
                       ELSE built
  /\ idx' = idx + 1
  /\ pc' = IF idx = Len(BUILD_TARGETS) THEN "built" ELSE "build"
  /\ UNCHANGED << run, pipeline, skip, tag, prerelease, pack, notes, syso, exitCode, zips,
                  rel, reqs, checksums, relExists, relPre, assets >>

\* build_binaries: one iteration of "for target in BUILD_TARGETS".
\* o: the compiler exits with failure ("fail"), succeeds without writing the
\* output ("missing"), or succeeds and writes it ("ok").  s: how the signing
\* goes, for a Windows target that was compiled.
root_build_target(o, s) ==
  /\ pipeline = "root"
  /\ pc = "build"
  /\ idx \in 1..Len(BUILD_TARGETS)
  /\ LET t    == BUILD_TARGETS[idx]
         d    == compile(disk, t.filename, o)
         good == root_target_built(d, t.filename, o)
         sign == good /\ t.goos = "windows"
         log  == IF sign THEN sign_windows_binary(signs, t.filename, s) ELSE signs
         sg0  == compiled_unsigned(sig, t.filename, o)
         sg   == IF sign THEN signtool_sign(sg0, t.filename, s) ELSE sg0
     IN  /\ disk' = d
         /\ sig' = sg
         /\ outcome' = [outcome EXCEPT ![idx] = IF o = "ok" THEN "ok" ELSE "fail"]
         /\ signs' = log
         /\ built' = IF good
                       THEN Append(built, [target |-> idx, name |-> t.filename,
                                           path |-> t.filename,
                                           sha256 |-> calculate_sha256(FileBytes(d, sg, t.filename))])
                       ELSE built
  /\ idx' = idx + 1
  /\ pc' = IF idx = Len(BUILD_TARGETS) THEN "built" ELSE "build"
  /\ UNCHANGED << run, pipeline, skip, tag, prerelease, pack, notes, syso, exitCode, zips,
                  rel, reqs, checksums, relExists, relPre, assets >>

\* Variant of root_no_binaries: the empty list is not noticed.
root_binaries_unchecked(b) == FALSE

\* main: "if not binaries: sys.exit(1)".
root_no_binaries(b) == b = << >>

\* build_binaries: "if syso_file.exists(): syso_file.unlink()".
cleanup_syso(y) == 0

\* Variant of root_main_after_build: --build-only is not looked at.
root_main_after_build_publishes ==
  /\ pipeline = "root"
  /\ pc = "built"
  /\ syso' = cleanup_syso(syso)
  /\ IF root_no_binaries(built) THEN Exit(1)
     ELSE pc' = "create" /\ exitCode' = exitCode
  /\ UNCHANGED << run, pipeline, skip, tag, prerelease, sig, pack, notes, signs, idx, outcome, built, zips,
                  rel, reqs, disk, checksums, relExists, relPre, assets >>

\* build_binaries after its loop, and main after build_binaries returned.
root_main_after_build ==
  /\ pipeline = "root"
  /\ pc = "built"
  /\ syso' = cleanup_syso(syso)
  /\ IF root_no_binaries(built) THEN Exit(1)
     ELSE IF skip THEN Exit(0)
     ELSE pc' = "create" /\ exitCode' = exitCode
  /\ UNCHANGED << run, pipeline, skip, tag, prerelease, sig, pack, notes, signs, idx, outcome, built, zips,
                  rel, reqs, disk, checksums, relExists, relPre, assets >>

\* The remote's answers to an asset upload under the given name: accepted
\* when the release has no asset of that name, a conflict when it has one, or
\* a failure of the request itself (rejected credentials, server error,
\* network) at any time.
UploadResponses(name) ==
  (IF assets[name] = 0 THEN {"ok"} ELSE {"conflict"}) \cup {"http_error", "net_error"}

\* The remote's answers to a create-release request for the tag.
CreateResponses ==
  (IF relExists THEN {} ELSE {"created"}) \cup {"rejected"}

\* create_github_release: g.get_repo, generate_release_notes and
\* repo.create_git_release; any exception is caught by "except Exception" and
\* the function returns False, on which main exits 1.
\* repo_ok: get_repo (a GET of the repository) succeeded.
root_create_release(repo_ok, resp) ==
  /\ pipeline = "root"
  /\ pc = "create"
  /\ IF ~repo_ok
       THEN /\ reqs' = Append(reqs, Request("repo", "repo", "error", 0))
            /\ Exit(1)
            /\ UNCHANGED << rel, relExists, relPre, idx >>
       ELSE /\ resp \in CreateResponses
            /\ reqs' = reqs \o << Request("repo", "repo", "ok", 0),
                                   Request("create", "release", resp, 0) >>
            /\ IF resp = "created"
                 THEN /\ relExists' = TRUE
                      /\ relPre' = root_prerelease(tag)
                      /\ rel' = [held |-> TRUE, upload_url |-> "URL"]
                      /\ pc' = "upload"
                      /\ idx' = 1
                      /\ exitCode' = exitCode
                 ELSE /\ Exit(1)
                      /\ UNCHANGED << rel, relExists, relPre, idx >>
  /\ UNCHANGED << run, pipeline, skip, tag, prerelease, sig, pack, notes, signs, syso, outcome, built, zips, disk,
                  checksums, assets >>

\* Variant of root_upload_asset: a failed upload is logged and the loop goes
\* on with the next binary.
root_upload_asset_continue(binary, resp) ==
  /\ resp \in UploadResponses(binary.name)
  /\ reqs' = Append(reqs, Request("upload", binary.name, resp, disk[binary.path]))
  /\ assets' = IF resp = "ok" THEN [assets EXCEPT ![binary.name] = disk[binary.path]]
                ELSE assets
  /\ idx' = idx + 1
  /\ pc' = IF idx = Len(built) THEN "checksums" ELSE "upload"
  /\ exitCode' = exitCode
  /\ UNCHANGED << run, pipeline, skip, tag, prerelease, sig, pack, notes, signs, syso, outcome, built, zips, rel, disk,
                  checksums, relExists, relPre >>

\* create_github_release: one iteration of "for binary in binaries":
\* release.upload_asset(path, name=filename).  An exception leaves the loop
\* through "except Exception": return False, and main exits 1.
root_upload_asset(binary, resp) ==
  /\ resp \in UploadResponses(binary.name)
  /\ reqs' = Append(reqs, Request("upload", binary.name, resp, disk[binary.path]))
  /\ IF resp = "ok"
       THEN /\ assets' = [assets EXCEPT ![binary.name] = disk[binary.path]]
            /\ idx' = idx + 1
            /\ pc' = IF idx = Len(built) THEN "checksums" ELSE "upload"
            /\ exitCode' = exitCode
       ELSE /\ Exit(1)
            /\ UNCHANGED << assets, idx >>
  /\ UNCHANGED << run, pipeline, skip, tag, prerelease, sig, pack, notes, signs, syso, outcome, built, zips, rel, disk,
                  checksums, relExists, relPre >>

root_upload_binaries(resp) ==
  /\ pipeline = "root"
  /\ pc = "upload"
  /\ idx \in 1..Len(built)
  /\ root_upload_asset(built[idx], resp)

\* create_github_release: the lines of checksums.txt after its header,
\* f"{binary['sha256']}  {binary['target']['filename']}" per binary.
checksums_content(binaries) ==
  [k \in 1..Len(binaries) |-> << binaries[k].sha256, binaries[k].name >>]

\* create_github_release: write checksums.txt, upload it, and return True,
\* on which main returns (exit status 0); an exception returns False and main
\* exits 1.
root_upload_checksums(resp) ==
  /\ pipeline = "root"
  /\ pc = "checksums"
  /\ checksums' = checksums_content(built)
  /\ disk' = [disk EXCEPT ![CHECKSUMS] = run]
  /\ resp \in UploadResponses(CHECKSUMS)
  /\ reqs' = Append(reqs, Request("upload", CHECKSUMS, resp, run))
  /\ IF resp = "ok"
       THEN /\ assets' = [assets EXCEPT ![CHECKSUMS] = run]
            /\ Exit(0)
       ELSE /\ Exit(1)
            /\ assets' = assets
  /\ UNCHANGED << run, pipeline, skip, tag, prerelease, sig, pack, notes, signs, syso, idx, outcome, built, zips, rel,
                  relExists, relPre >>

AllUploadResponses == {"ok", "conflict", "http_error", "net_error"}

(***************************************************************************)
(* scripts/release.py                                                      *)
(***************************************************************************)

\* Variant of fresh_dist: the existing dist/ is kept.
stale_dist(d) == d

\* main: "if DIST.exists(): shutil.rmtree(DIST)" and DIST.mkdir.
fresh_dist(d) == [f \in DistFiles |-> 0]

\* main up to its build loop.  pre: what stops the run before the loop, if
\* anything: "no_token" (upload wanted and neither GITHUB_TOKEN nor GH_TOKEN
\* set), "no_go" (ensure_tools), "ui_fail" (build_ui, after dist/ was reset).
scripts_main(t, args_prerelease, skip_upload, pre) ==
  /\ NewRun("scripts", skip_upload, t, args_prerelease)
  /\ pre = "no_token" => ~skip_upload
  /\ IF pre \in {"no_token", "no_go"}
       THEN /\ Exit(1)
            /\ disk' = disk
            /\ sig' = sig
       ELSE /\ disk' = fresh_dist(disk)
            /\ sig' = { f \in sig : fresh_dist(disk)[f] # 0 }
            /\ IF pre = "ui_fail"
                 THEN Exit(1)
                 ELSE pc' = "build" /\ exitCode' = exitCode
  /\ UNCHANGED << checksums, relExists, relPre, assets, syso, pack, notes >>

\* build_target: run() raises SystemExit when the compiler exits with failure,
\* and build_target raises it when out_path does not exist afterwards.
scripts_target_built(d, path, o) == o # "fail" /\ d[path] # 0

\* main: one iteration of "for goos, goarch in targets": build_target and
\* builds.append.  A SystemExit ends the process with status 1.
scripts_build_target(o) ==
  /\ pipeline = "scripts"
  /\ pc = "build"
  /\ idx \in 1..Len(targets)
  /\ LET t    == targets[idx]
         d    == compile(disk, t.bin, o)
         good == scripts_target_built(d, t.bin, o)
     IN  /\ disk' = d
         /\ outcome' = [outcome EXCEPT ![idx] = IF o = "ok" THEN "ok" ELSE "fail"]
         /\ IF good
              THEN /\ built' = Append(built, [target |-> idx, name |-> t.zip,
                                              path |-> t.bin,
                                              sha256 |-> calculate_sha256(FileBytes(d, sig, t.bin))])
                   /\ idx' = IF idx = Len(targets) THEN 1 ELSE idx + 1
                   /\ pc' = IF idx = Len(targets) THEN "package" ELSE "build"
                   /\ exitCode' = exitCode
              ELSE /\ Exit(1)
                   /\ UNCHANGED << built, idx >>
  /\ UNCHANGED << run, pipeline, skip, tag, prerelease, sig, pack, notes, signs, syso, zips, rel, reqs, checksums, relExists, relPre, assets >>

\* stage_and_zip: the staging directory is rebuilt from the binary, any
\* archive of that name is deleted and the archive written: dist/ afterwards.
\* The archive holds the binary's content.
stage_and_zip(d, b) == [d EXCEPT ![b.name] = d[b.path]]

\* Variant of scripts_package: main goes on to publish after the first archive.
scripts_package_first_only ==
  /\ pipeline = "scripts"
  /\ pc = "package"
  /\ idx \in 1..Len(built)
  /\ disk' = stage_and_zip(disk, built[idx])
  /\ zips' = Append(zips, built[idx].name)
  /\ idx' = 1
  /\ pc' = "packaged"
  /\ UNCHANGED << run, pipeline, skip, tag, prerelease, sig, pack, notes, signs, syso, exitCode, outcome, built, rel, reqs,
                  checksums, relExists, relPre, assets >>

\* main: one iteration of "for goos, goarch, bin_path in builds":
\* zips.append(stage_and_zip(...)).
scripts_package ==
  /\ pipeline = "scripts"
  /\ pc = "package"
  /\ idx \in 1..Len(built)
  /\ disk' = stage_and_zip(disk, built[idx])
  /\ zips' = Append(zips, built[idx].name)
  /\ idx' = IF idx = Len(built) THEN 1 ELSE idx + 1
  /\ pc' = IF idx = Len(built) THEN "packaged" ELSE "package"
  /\ UNCHANGED << run, pipeline, skip, tag, prerelease, sig, pack, notes, signs, syso, exitCode, outcome, built, rel, reqs,
                  checksums, relExists, relPre, assets >>

\* main after packaging: "if args.skip_upload: ... return", then
\* repo = args.repo or get_repo_slug(), which raises SystemExit when no slug
\* can be determined.
scripts_main_after_package(slug_ok) ==
  /\ pipeline = "scripts"
  /\ pc = "packaged"
  /\ IF skip THEN Exit(0)
     ELSE IF ~slug_ok THEN Exit(1)
     ELSE pc' = "lookup" /\ exitCode' = exitCode
  /\ UNCHANGED << run, pipeline, skip, tag, prerelease, sig, pack, notes, signs, syso, idx, outcome, built, zips, rel,
                  reqs, disk, checksums, relExists, relPre, assets >>

\* The remote's answers to a lookup of the release by tag: the release when
\* there is one, 404 when there is none, or a failure of the request itself:
\* another HTTP status (401, 403, 5xx) or no HTTP answer at all.
LookupResponses ==
  (IF relExists THEN {"found"} ELSE {"404"}) \cup {"http_error", "net_error"}

\* Variant of scripts_got_release: the upload URL is not looked at.
scripts_got_release_unchecked(r) ==
  /\ rel' = r
  /\ idx' = 1
  /\ pc' = "upload"
  /\ exitCode' = exitCode

\* main: "upload_url = rel.get('upload_url', ''); if not upload_url: raise
\* SystemExit".
scripts_got_release(r) ==
  /\ rel' = r
  /\ idx' = 1
  /\ IF r.upload_url = "" THEN Exit(1)
     ELSE pc' = "upload" /\ exitCode' = exitCode

\* create_or_get_release: whether the GET's outcome leads on to the POST.
\* "except HTTPError: pass" catches every HTTP error status.
lookup_falls_through(resp) == resp \in {"404", "http_error"}

\* Variant of scripts_lookup_release: a lookup that got no HTTP answer is
\* tried again.
scripts_lookup_release_retry(resp, url) ==
  /\ pipeline = "scripts"
  /\ pc = "lookup"
  /\ resp \in LookupResponses
  /\ reqs' = Append(reqs, Request("lookup", "release", resp, 0))
  /\ IF resp = "found"
       THEN scripts_got_release([held |-> TRUE, upload_url |-> url])
     ELSE IF lookup_falls_through(resp)
       THEN pc' = "create" /\ UNCHANGED << rel, idx, exitCode >>
     ELSE pc' = "lookup" /\ UNCHANGED << rel, idx, exitCode >>
  /\ UNCHANGED << run, pipeline, skip, tag, prerelease, sig, pack, notes, signs, syso, outcome, built, zips, disk,
                  checksums, relExists, relPre, assets >>

\* create_or_get_release: the GET by tag.  A found release is returned to
\* main; an HTTPError is passed over and the create follows; any other
\* exception (URLError) is not caught and ends the process.
scripts_lookup_release(resp, url) ==
  /\ pipeline = "scripts"
  /\ pc = "lookup"
  /\ resp \in LookupResponses
  /\ reqs' = Append(reqs, Request("lookup", "release", resp, 0))
  /\ IF resp = "found"
       THEN scripts_got_release([held |-> TRUE, upload_url |-> url])
     ELSE IF lookup_falls_through(resp)
       THEN pc' = "create" /\ UNCHANGED << rel, idx, exitCode >>
     ELSE Exit(1) /\ UNCHANGED << rel, idx >>
  /\ UNCHANGED << run, pipeline, skip, tag, prerelease, sig, pack, notes, signs, syso, outcome, built, zips, disk,
                  checksums, relExists, relPre, assets >>

\* create_or_get_release: the POST that creates the release; an error of the
\* request is not caught and ends the process.
scripts_create_release(resp, url) ==
  /\ pipeline = "scripts"
  /\ pc = "create"
  /\ resp \in CreateResponses
  /\ reqs' = Append(reqs, Request("create", "release", resp, 0))
  /\ IF resp = "created"
       THEN /\ relExists' = TRUE
            /\ relPre' = scripts_prerelease(tag, prerelease)
            /\ scripts_got_release([held |-> TRUE, upload_url |-> url])
       ELSE /\ Exit(1)
            /\ UNCHANGED << rel, idx, relExists, relPre >>
  /\ UNCHANGED << run, pipeline, skip, tag, prerelease, sig, pack, notes, signs, syso, outcome, built, zips, disk,
                  checksums, assets >>

\* Variant of gh_upload_asset: on a conflict the existing asset is deleted and
\* the archive uploaded in its place.
gh_upload_asset_overwrite(zip, resp) ==
  /\ resp \in UploadResponses(zip)
  /\ reqs' = IF resp = "conflict"
               THEN reqs \o << Request("upload", zip, resp, disk[zip]),
                               Request("delete", zip, "ok", 0),
                               [Request("upload", zip, "ok", disk[zip]) EXCEPT !.existed = FALSE] >>
               ELSE Append(reqs, Request("upload", zip, resp, disk[zip]))
  /\ IF resp \in {"ok", "conflict"}
       THEN /\ assets' = [assets EXCEPT ![zip] = disk[zip]]
            /\ idx' = idx + 1
            /\ IF idx = Len(zips) THEN Exit(0)
               ELSE pc' = "upload" /\ exitCode' = exitCode
       ELSE /\ Exit(1)
            /\ UNCHANGED << assets, idx >>
  /\ UNCHANGED << run, pipeline, skip, tag, prerelease, sig, pack, notes, signs, syso, outcome, built, zips, rel, disk,
                  checksums, relExists, relPre >>

\* gh_upload_asset: POST of the archive's bytes under its file name.  An
\* HTTPError raises SystemExit, any other error is not caught: the process
\* ends with status 1 either way.  After the last archive main logs and
\* returns (exit status 0).
gh_upload_asset(zip, resp) ==
  /\ resp \in UploadResponses(zip)
  /\ reqs' = Append(reqs, Request("upload", zip, resp, disk[zip]))
  /\ IF resp = "ok"
       THEN /\ assets' = [assets EXCEPT ![zip] = disk[zip]]
            /\ idx' = idx + 1
            /\ IF idx = Len(zips) THEN Exit(0)
               ELSE pc' = "upload" /\ exitCode' = exitCode
       ELSE /\ Exit(1)
            /\ UNCHANGED << assets, idx >>
  /\ UNCHANGED << run, pipeline, skip, tag, prerelease, sig, pack, notes, signs, syso, outcome, built, zips, rel, disk,
                  checksums, relExists, relPre >>

\* main: one iteration of "for z in zips: gh_upload_asset(token, upload_url, z)".
scripts_upload_assets(resp) ==
  /\ pipeline = "scripts"
  /\ pc = "upload"
  /\ idx \in 1..Len(zips)
  /\ gh_upload_asset(zips[idx], resp)

Next ==
  \/ \E b \in BOOLEAN, ok \in BOOLEAN, r \in ResourceOutcomes :
        root_main(RunTag, b, ok, r)
  \/ \E o \in {"fail", "missing", "ok"}, s \in SignOutcomes : root_build_target(o, s)
  \/ root_main_after_build
  \/ \E ok \in BOOLEAN, resp \in {"created", "rejected"} : root_create_release(ok, resp)
  \/ \E resp \in AllUploadResponses : root_upload_binaries(resp)
  \/ \E resp \in AllUploadResponses : root_upload_checksums(resp)
  \/ \E s \in BOOLEAN, pre \in {"no_token", "no_go", "ui_fail", "ok"} :
        scripts_main(RunTag, FALSE, s, pre)
  \/ \E o \in {"fail", "missing", "ok"} : scripts_build_target(o)
  \/ scripts_package
  \/ \E ok \in BOOLEAN : scripts_main_after_package(ok)
  \/ \E resp \in {"found", "404", "http_error", "net_error"}, url \in {"", "URL"} :
        scripts_lookup_release(resp, url)
  \/ \E resp \in {"created", "rejected"}, url \in {"", "URL"} :
        scripts_create_release(resp, url)
  \/ \E resp \in AllUploadResponses : scripts_upload_assets(resp)

Spec == Init /\ [][Next]_vars

\* A KeyboardInterrupt, or an exception nothing in the pipeline catches,
\* raised while the run is under way.  release.py main: both handlers
\* sys.exit(1); scripts/release.py: "except KeyboardInterrupt: sys.exit(130)".
interrupt ==
  /\ pc \notin {"idle", "done"}
  /\ Exit(IF pipeline = "root" THEN 1 ELSE 130)
  /\ UNCHANGED << run, pipeline, skip, tag, prerelease, sig, pack, notes, signs, syso, idx, outcome, built,
                  zips, rel, reqs, disk, checksums, relExists, relPre, assets >>

\* The runs of Spec, with interrupts.
NextInt == Next \/ interrupt

SpecInt == Init /\ [][NextInt]_vars

\* One call of stage_and_zip on its own; the first call's result is kept.
pack_call ==
  /\ pack.calls < MaxCalls
  /\ LET f == stage_and_zip_files(pack)
     IN  pack' = [f EXCEPT !.calls = pack.calls + 1,
                           !.first = IF pack.calls = 0 THEN f.stage ELSE pack.first,
                           !.firstZip = IF pack.calls = 0 THEN f.zip ELSE pack.firstZip]
  /\ UNCHANGED << run, pipeline, skip, tag, prerelease, sig, signs, syso, pc, exitCode, idx,
                  outcome, built, zips, rel, reqs, disk, checksums, relExists, relPre,
                  assets, notes >>

\* stage_and_zip called MaxCalls times in a row on any of PackInputs.
InitPack == InitRun /\ pack \in PackInputs /\ notes = NotesIdle

NextPack == pack_call

SpecPack == InitPack /\ [][NextPack]_vars

\* One call of generate_release_notes on its own with the same version and
\* binaries, at a time not before the last call's.
notes_call(now, head, go) ==
  /\ Len(notes.texts) < MaxCalls
  /\ now >= notes.now
  /\ notes' = [notes EXCEPT
        !.now = now,
        !.texts = Append(notes.texts,
                    generate_release_notes(notes.version, notes.binaries,
                                           [now |-> now, head |-> head, go |-> go]))]
  /\ UNCHANGED << run, pipeline, skip, tag, prerelease, sig, signs, syso, pc, exitCode, idx,
                  outcome, built, zips, rel, reqs, disk, checksums, relExists, relPre,
                  assets, pack >>

\* generate_release_notes called MaxCalls times in a row on any of NotesInputs.
InitNotes == InitRun /\ pack = PackIdle /\ notes \in NotesInputs

NextNotes == \E now \in Clock, head \in Heads, go \in GoOutputs : notes_call(now, head, go)

SpecNotes == InitNotes /\ [][NextNotes]_vars

\* One run of either program on a fresh dist/ and remote, with any tag of
\* Tags and any --prerelease.
NextTags ==
  \/ \E t \in Tags, b \in BOOLEAN, ok \in BOOLEAN, r \in ResourceOutcomes :
        run = 0 /\ root_main(t, b, ok, r)
  \/ \E o \in {"fail", "missing", "ok"}, s \in SignOutcomes : root_build_target(o, s)
  \/ root_main_after_build
  \/ \E ok \in BOOLEAN, resp \in {"created", "rejected"} : root_create_release(ok, resp)
  \/ \E resp \in AllUploadResponses : root_upload_binaries(resp)
  \/ \E resp \in AllUploadResponses : root_upload_checksums(resp)
  \/ \E t \in Tags, p \in BOOLEAN, s \in BOOLEAN,
        pre \in {"no_token", "no_go", "ui_fail", "ok"} :
        run = 0 /\ scripts_main(t, p, s, pre)
  \/ \E o \in {"fail", "missing", "ok"} : scripts_build_target(o)
  \/ scripts_package
  \/ \E ok \in BOOLEAN : scripts_main_after_package(ok)
  \/ \E resp \in {"found", "404", "http_error", "net_error"}, url \in {"", "URL"} :
        scripts_lookup_release(resp, url)
  \/ \E resp \in {"created", "rejected"}, url \in {"", "URL"} :
        scripts_create_release(resp, url)
  \/ \E resp \in AllUploadResponses : scripts_upload_assets(resp)

SpecTags == Init /\ [][NextTags]_vars

(***************************************************************************)
(* Properties                                                              *)
(***************************************************************************)

\* The declared targets of the current run's program, by index.
Declared == IF pipeline = "root" THEN 1..Len(BUILD_TARGETS) ELSE 1..Len(targets)

\* The asset name under which the current run's program publishes target k.
AssetOf(k) == IF pipeline = "root" THEN BUILD_TARGETS[k].filename ELSE targets[k].zip

BuiltTargets == { built[k].target : k \in 1..Len(built) }
Succeeded    == { k \in Declared : outcome[k] = "ok" }
Failed       == { k \in Declared : outcome[k] = "fail" }

\* The build loop of the current run is over (or was left).
BuildLoopOver == pc \notin {"idle", "build"}

\* The run has ended having gone through its whole publish step.
PublishComplete == pc = "done" /\ exitCode = 0 /\ ~skip /\ run > 0

\* The requests a step appends to the run's log.
Issued == IF Len(reqs') > Len(reqs)
            THEN { reqs'[k] : k \in (Len(reqs) + 1)..Len(reqs') } ELSE {}

FailedUpload(r) == r.op = "upload" /\ r.resp # "ok"

\* C1: in the build loop, a target whose compile step failed (compiler exit
\* status, or output file missing) is not among the artifacts, and every
\* target declared after it is still attempted.
C1_MatrixContinues ==
  \A k \in Failed :
    /\ k \notin BuiltTargets
    /\ BuildLoopOver => \A j \in Declared : j > k => outcome[j] # "none"

\* C2: create-or-get issues a create request only when the remote holds no
\* release for the tag, so a release that exists is returned and never
\* created again.
C2_NoCreateWhenReleaseExists ==
  \A k \in 1..Len(reqs) : reqs[k].op = "create" => ~reqs[k].existed

\* C3: in create-or-get the create request follows only a lookup answered
\* 404; after any other lookup failure no create request is sent.
C3_CreateOnlyAfter404 ==
  pipeline = "scripts" =>
    \A k \in 1..Len(reqs) :
      reqs[k].op = "create" =>
        k > 1 /\ reqs[k - 1].op = "lookup" /\ reqs[k - 1].resp = "404"

\* C4: an upload under a name the release already carries ends the run with
\* a non-zero status, and no step deletes or replaces an asset the release
\* holds.
C4_ConflictIsFatalAssetKept ==
  [][ /\ \A n \in AssetNames : assets[n] # 0 => assets'[n] = assets[n]
      /\ \A r \in Issued : r.op \in {"repo", "lookup", "create", "upload"}
      /\ (\E r \in Issued : r.op = "upload" /\ r.existed) =>
            pc' = "done" /\ exitCode' # 0 ]_vars

\* C4 witness: a re-run ended on a conflict with an asset of an earlier run.
C4_Witness ==
  /\ pc = "done" /\ exitCode = 1 /\ reqs # << >>
  /\ LET r == reqs[Len(reqs)]
     IN  r.op = "upload" /\ r.resp = "conflict" /\ assets[r.name] \in 1..(run - 1)

\* C5: a failed upload is the last request of its run: the run ends there
\* with a non-zero status, and that step leaves the release, the assets
\* already uploaded and every file in dist/ as they were.
C5_FailedUploadEndsRun ==
  [][ /\ \A k \in 1..(Len(reqs') - 1) : ~FailedUpload(reqs'[k])
      /\ (\E r \in Issued : FailedUpload(r)) =>
            /\ pc' = "done" /\ exitCode' # 0
            /\ assets' = assets /\ relExists' = relExists
            /\ \A f \in DistFiles : disk[f] # 0 => disk'[f] = disk[f] ]_vars

\* C5 witness: the second upload of a run failed after the first succeeded.
C5_Witness ==
  /\ pc = "done" /\ exitCode = 1 /\ Len(reqs) >= 3
  /\ reqs[Len(reqs)].op = "upload" /\ reqs[Len(reqs)].resp = "net_error"
  /\ reqs[Len(reqs) - 1].op = "upload" /\ reqs[Len(reqs) - 1].resp = "ok"
  /\ assets[reqs[Len(reqs) - 1].name] = run
  /\ \A k \in 1..Len(built) : disk[built[k].path] = run

\* The binary/archive uploads of the run that the remote accepted.
AcceptedUploads ==
  { k \in 1..Len(reqs) : reqs[k].op = "upload" /\ reqs[k].resp = "ok"
                         /\ reqs[k].name # CHECKSUMS }

\* C6: when a run has completed its publish step, the binary/archive assets
\* it uploaded are those of the targets whose build succeeded in this run,
\* each uploaded once and each holding the file this run wrote.
C6_UploadedEqualsBuilt ==
  PublishComplete =>
    /\ { reqs[k].name : k \in AcceptedUploads } = { AssetOf(t) : t \in Succeeded }
    /\ \A i, j \in AcceptedUploads : reqs[i].name = reqs[j].name => i = j
    /\ \A k \in AcceptedUploads : reqs[k].body = run /\ assets[reqs[k].name] = run

\* C6 witness: a re-run published while one of its targets failed.
C6_Witness ==
  /\ PublishComplete /\ run = 2 /\ pipeline = "root"
  /\ Failed # {} /\ Cardinality(Succeeded) >= 2

\* C7: when some target builds and some target fails, the successful
\* targets' artifacts are produced and (unless build-only) published, and
\* the exit status is non-zero.
C7_PartialFailureExitsNonZero ==
  (pc = "done" /\ Succeeded # {} /\ Failed # {}) =>
    /\ exitCode # 0
    /\ BuiltTargets = Succeeded
    /\ ~skip => \E k \in 1..Len(reqs) : reqs[k].op = "upload"

\* C8: when no declared target was built (every attempted compile step
\* failed), no remote operation is performed and the run exits non-zero.
C8_NothingBuiltNothingRemote ==
  (Failed # {} /\ Succeeded = {}) =>
    /\ reqs = << >>
    /\ pc \in {"build", "built", "done"}
    /\ pc = "done" => exitCode # 0

\* C8 witness: release.py has tried all five targets and all failed.
C8_Witness ==
  /\ pipeline = "root" /\ pc = "done" /\ exitCode = 1
  /\ Failed = 1..Len(BUILD_TARGETS) /\ reqs = << >>

\* C9: a run that completes its publish step has uploaded, as its last
\* asset, a checksum manifest with one (digest, filename) line per artifact
\* built in this run, in build order.
C9_ManifestUploadedLast ==
  PublishComplete =>
    /\ reqs[Len(reqs)].op = "upload" /\ reqs[Len(reqs)].name = CHECKSUMS
    /\ reqs[Len(reqs)].resp = "ok"
    /\ checksums = [k \in 1..Len(built) |->
                      << calculate_sha256(FileBytes(disk, sig, built[k].path)),
                         built[k].name >>]

\* The publisher's state, read off the run: Created once the run holds a
\* release with a usable upload URL, Published once it has ended successfully
\* holding one.
PublisherState ==
  IF rel.held /\ rel.upload_url # "" /\ pc = "done" /\ exitCode = 0 THEN "Published"
  ELSE IF rel.held /\ rel.upload_url # "" THEN "Created"
  ELSE "NotCreated"

Rank(st) == CASE st = "NotCreated" -> 0 [] st = "Created" -> 1 [] st = "Published" -> 2

\* C10: within a run the publisher's state only moves forward; an upload is
\* issued only in state Created; Published is reached only when every
\* artifact of the run was uploaded and no upload failed; a failed remote
\* call leaves the state where it was.
C10_PublisherStateForward ==
  [][ /\ run' = run => Rank(PublisherState') >= Rank(PublisherState)
      /\ (\E r \in Issued : r.op = "upload") => PublisherState = "Created"
      /\ PublisherState' = "Published" =>
            /\ \A k \in 1..Len(reqs') : ~FailedUpload(reqs'[k])
            /\ \A b \in 1..Len(built') :
                 \E k \in 1..Len(reqs') :
                   reqs'[k].op = "upload" /\ reqs'[k].name = built'[b].name
      /\ (\E r \in Issued : r.resp \notin {"ok", "created", "found"}) =>
            PublisherState' = PublisherState ]_vars

\* C10 witness: a re-run found the release of an earlier run and published.
C10_Witness ==
  /\ PublisherState = "Published" /\ pipeline = "scripts" /\ run = 2
  /\ reqs[1].op = "lookup" /\ reqs[1].resp = "found"

\* s has sub as a substring.
Contains(s, sub) ==
  \E i \in 1..Len(s) : i + Len(sub) - 1 <= Len(s) /\ SubSeq(s, i, i + Len(sub) - 1) = sub

\* The tag carries one of the pre-release markers alpha, beta, rc.
HasPrereleaseMarker(t) ==
  \/ Contains(t, << "a", "l", "p", "h", "a" >>)
  \/ Contains(t, << "b", "e", "t", "a" >>)
  \/ Contains(t, << "r", "c" >>)

\* C11: the release a run created carries prerelease = (the operator asked
\* for prerelease, or the tag contains alpha, beta or rc).
C11_PrereleaseFlag ==
  relExists => (relPre <=> (prerelease \/ HasPrereleaseMarker(tag)))

\* The characters between two dots of t: the maximal dot-free runs, empty
\* ones included.
Components(t) ==
  LET cuts == { 0, Len(t) + 1 } \cup { i \in 1..Len(t) : t[i] = "." }
  IN  { SubSeq(t, a + 1, b - 1) :
          << a, b >> \in { c \in cuts \X cuts :
                             c[1] < c[2] /\ ~\E m \in cuts : c[1] < m /\ m < c[2] } }

NumberOfDots(t) == Cardinality({ i \in 1..Len(t) : t[i] = "." })

\* The tags the validator is to accept: 'v', then at least two dot-separated
\* components, none of them empty.
WellFormedTag(t) ==
  /\ Len(t) >= 1 /\ t[1] = "v"
  /\ NumberOfDots(t) >= 1
  /\ << >> \notin Components(Tail(t))

\* C12: release.py goes on past validate_version exactly with a well-formed
\* tag: 'v' followed by at least two non-empty dot-separated components.
C12_ValidatorAcceptsWellFormed ==
  (pipeline = "root" /\ run > 0) =>
    /\ pc # "done" => WellFormedTag(tag)
    /\ validate_version(tag) <=> WellFormedTag(tag)

\* C13: a run whose tag fails validation ends with a non-zero status before
\* any build work: no target is compiled, nothing is packaged and no remote
\* request is issued.
C13_MalformedTagStopsRun ==
  (run > 0 /\ ~validate_version(tag)) =>
    /\ pc = "done" /\ exitCode # 0
    /\ outcome = NoOutcome /\ built = << >> /\ zips = << >>
    /\ reqs = << >>

\* The positions in the run's log of the requests of one kind and name.
RequestsOf(op, name) ==
  { k \in 1..Len(reqs) : reqs[k].op = op /\ reqs[k].name = name }

\* C14: within a run every remote operation is issued at most once: one
\* lookup, one create, one upload per asset; no failed call is re-issued.
C14_EachRemoteCallOnce ==
  /\ Cardinality(RequestsOf("repo", "repo")) <= 1
  /\ Cardinality(RequestsOf("lookup", "release")) <= 1
  /\ Cardinality(RequestsOf("create", "release")) <= 1
  /\ \A n \in AssetNames : Cardinality(RequestsOf("upload", n)) <= 1

\* C14 witness: a run that looked up, created and uploaded all its archives.
C14_Witness ==
  /\ pc = "done" /\ exitCode = 0 /\ Len(reqs) = 2 + Len(targets)
  /\ reqs[1].op = "lookup" /\ reqs[2].op = "create"
  /\ \A k \in 3..Len(reqs) : reqs[k].op = "upload" /\ reqs[k].resp = "ok"

\* C15: once a run is past its start, dist/ holds only files this run wrote,
\* so every binary it lists, packages or uploads was written by this run.
C15_FreshOutputDir ==
  /\ (pc \notin {"idle", "done"} \/ outcome # NoOutcome) =>
        \A f \in DistFiles : disk[f] \in {0, run}
  /\ \A k \in 1..Len(built) : disk[built[k].path] = run
  /\ \A k \in 1..Len(zips) : disk[zips[k]] = run
  /\ \A k \in 1..Len(reqs) : reqs[k].op = "upload" => reqs[k].body = run

\* C15 witness: a re-run, after a run that had built and published, uploads
\* an archive it wrote itself.
C15_Witness ==
  /\ run = 2 /\ pipeline = "scripts" /\ Len(reqs) >= 2
  /\ reqs[1].op = "lookup" /\ reqs[1].resp = "found"
  /\ reqs[Len(reqs)].op = "upload" /\ reqs[Len(reqs)].resp = "ok"
  /\ reqs[Len(reqs)].body = 2

\* C17: with --build-only / --skip-upload a run issues no remote request,
\* and when all its targets were built it ends with status 0.
C17_BuildOnlyNoRemote ==
  skip =>
    /\ reqs = << >>
    /\ (pc = "done" /\ Succeeded = Declared) => exitCode = 0

\* C17 witness: a build-only run of release.py ended after building all five.
C17_Witness ==
  /\ skip /\ pipeline = "root" /\ pc = "done" /\ exitCode = 0
  /\ Succeeded = 1..Len(BUILD_TARGETS) /\ Len(built) = Len(BUILD_TARGETS)

\* C19: signing is called for Windows binaries only; whichever way it goes,
\* the binary is in the built list, the loop has moved on, and a run that
\* ends with a non-zero status after it does so because a remote call failed.
C19_SigningNeverFails ==
  \A k \in 1..Len(signs) :
    /\ \E i \in 1..Len(BUILD_TARGETS) :
          /\ BUILD_TARGETS[i].filename = signs[k].name
          /\ BUILD_TARGETS[i].goos = "windows"
          /\ outcome[i] = "ok"
          /\ idx > i \/ pc \notin {"build"}
          /\ \E b \in 1..Len(built) : built[b].target = i
    /\ signs[k].result \in SignOutcomes
    /\ (pc = "done" /\ exitCode # 0) =>
          /\ reqs # << >>
          /\ reqs[Len(reqs)].resp \notin {"ok", "created"}

\* C19 witness: the signing command failed for the Windows binary and the
\* run published all five binaries with status 0.
C19_Witness ==
  /\ pipeline = "root" /\ pc = "done" /\ exitCode = 0 /\ ~skip
  /\ Len(signs) = 1 /\ signs[1].result = "sign_fail"
  /\ Len(built) = Len(BUILD_TARGETS)

\* C20: a run of release.py that compiled claracore_windows.syso and has
\* ended, by whatever path, has left no such file.
C20_SysoRemovedAtEnd ==
  (pipeline = "root" /\ run > 0 /\ pc = "done") => syso # run

\* What stage_and_zip is to leave in the staging directory: the binary and
\* the auxiliary files that exist in the project root.
ExpectedStage ==
  [n \in StageNames |->
     IF n = pack.exe THEN pack.bin
     ELSE IF n \in AuxNames THEN pack.root[n]
     ELSE 0]

\* C16: after any call of stage_and_zip the staging directory and the
\* archive hold exactly the binary and the auxiliary files present in the
\* project root, whatever was there before and whichever auxiliary files
\* are missing, and a second call leaves what the first one left.
C16_StageAndZipIdempotent ==
  pack.calls >= 1 =>
    /\ pack.stage = ExpectedStage
    /\ pack.zip = { << n, ExpectedStage[n] >> :
                      n \in { m \in StageNames : ExpectedStage[m] # 0 } }
    /\ pack.stage = pack.first
    /\ pack.zip = pack.firstZip

\* C16 witness: called twice where the staging directory held a file of its
\* own, an older binary and an older README, an archive existed, and the
\* project root has no LICENSE.md.
C16_Witness ==
  /\ pack.calls = 2
  /\ pack.before["leftover.txt"] # 0 /\ pack.before[pack.exe] # 0
  /\ pack.before["README.md"] # 0 /\ pack.beforeZip # {}
  /\ pack.root["LICENSE.md"] = 0 /\ pack.root["README.md"] # 0
  /\ pack.stage["LICENSE.md"] = 0
  /\ pack.stage["leftover.txt"] = 0
  /\ pack.stage[pack.exe] = pack.bin
  /\ << "README.md", pack.root["README.md"] >> \in pack.zip
  /\ << "leftover.txt", 1 >> \notin pack.zip

\* The lines of a text of the given kind, in order.
LinesOf(text, kind) == SelectSeq(text, LAMBDA l : l[1] = kind)

\* C18: two calls of generate_release_notes with the same version and
\* binaries return the same text, whatever the clock, the git tree and the
\* installed Go are, and each text has one download line and one checksum
\* line per binary, in input order.
C18_NotesDeterministic ==
  /\ \A i, j \in 1..Len(notes.texts) : notes.texts[i] = notes.texts[j]
  /\ \A i \in 1..Len(notes.texts) :
        /\ LinesOf(notes.texts[i], "download") =
             [k \in 1..Len(notes.binaries) |->
                << "download", notes.binaries[k].filename, notes.binaries[k].size >>]
        /\ LinesOf(notes.texts[i], "checksum") =
             [k \in 1..Len(notes.binaries) |->
                << "checksum", notes.binaries[k].filename, notes.binaries[k].sha256 >>]

\* The local phases of the run are over: every declared target has been
\* attempted and, in scripts/release.py, every built binary is packaged.
LocalPhasesOver ==
  /\ \A k \in Declared : outcome[k] # "none"
  /\ pipeline = "scripts" =>
        /\ Len(built) = Len(targets)
        /\ Len(zips) = Len(built)

\* C21: a run has issued a remote request only when its local phases are
\* over, and any step after which the run has issued none leaves the remote
\* release and its assets as they were.
C21_RemoteOnlyAfterLocalPhases ==
  [][ /\ reqs' # << >> => LocalPhasesOver'
      /\ reqs' = << >> =>
            /\ relExists' = relExists
            /\ relPre' = relPre
            /\ assets' = assets ]_vars

\* C21 witness: a second run of scripts/release.py failed in its build loop
\* while the remote held a release with assets; it issued no request.
C21_Witness ==
  /\ run = 2 /\ pipeline = "scripts" /\ pc = "done" /\ exitCode # 0
  /\ Failed # {} /\ reqs = << >>
  /\ relExists /\ \E n \in AssetNames : assets[n] # 0

\* The digest of the bytes an upload request sent.
DigestOfUpload(r) == calculate_sha256([content |-> r.body, signed |-> r.signed])

\* C22: in release.py the digest recorded for a built binary is the digest
\* of the file as it is after signing and as it stays until the end of the
\* run; the bytes uploaded for it have that digest, and so has its line in
\* the checksum manifest the run wrote.
C22_DigestOfUploadedBytes ==
  pipeline = "root" =>
    /\ \A b \in 1..Len(built) :
          built[b].sha256 = calculate_sha256(FileBytes(disk, sig, built[b].path))
    /\ \A k \in 1..Len(reqs) :
          (reqs[k].op = "upload" /\ reqs[k].name # CHECKSUMS) =>
             \E b \in 1..Len(built) :
               /\ built[b].name = reqs[k].name
               /\ built[b].sha256 = DigestOfUpload(reqs[k])
    /\ RequestsOf("upload", CHECKSUMS) # {} =>
          /\ Len(checksums) = Len(built)
          /\ \A b \in 1..Len(built) :
                \E k \in RequestsOf("upload", built[b].name) :
                  checksums[b] = << DigestOfUpload(reqs[k]), built[b].name >>

\* C22 witness: the Windows binary was signed, uploaded with its signature,
\* and the run published its manifest.
C22_Witness ==
  /\ pipeline = "root" /\ pc = "done" /\ exitCode = 0 /\ ~skip
  /\ Len(signs) = 1 /\ signs[1].result = "signed"
  /\ \E k \in RequestsOf("upload", "claracore-windows-amd64.exe") :
        reqs[k].signed /\ reqs[k].resp = "ok"
  /\ RequestsOf("upload", CHECKSUMS) # {}

====
